---------------------------- MODULE Spec2Model ----------------------------
(***************************************************************************)
(* Model of the JA3 fingerprint compiler of guojunwengit/chttp             *)
(* (src/tlsextensions.go): TLSExtensions.StringToSpec, parseUserAgent,     *)
(* genMap and the errExtensionNotExist error.                              *)
(*                                                                         *)
(* Go strings are sequences of one-character strings, so strings.Split,    *)
(* strings.ToLower, strings.Contains and strconv.ParseUint are computed    *)
(* character by character.  Pointers are heap addresses: the caller's      *)
(* override objects live at CallerAddrs, the objects a call allocates      *)
(* (genMap's catalog, the "10"/"11" extensions, the GREASE markers) at the *)
(* addresses above them.  A nil pointer or nil error is <<>>, a non-nil    *)
(* one is <<value>>, except for extension pointers, where nil is Nil.      *)
(***************************************************************************)
EXTENDS Integers, Sequences, FiniteSets, TLC

VARIABLES
    te,      \* the caller's TLSExtensions struct (pointers into heap, flags)
    heap,    \* address -> extension object
    pc,      \* "idle" | "returned" | "panicked"
    args,    \* the arguments of the last StringToSpec call
    result,  \* what the last StringToSpec call returned
    seen,    \* history: the (input, outcome) pair of every call made so far
    calls    \* number of StringToSpec calls made so far

vars == <<te, heap, pc, args, result, seen, calls>>

---------------------------------------------------------------------------
(* Bounds of the model.                                                    *)

\* longest extension-ID list enumerated over ExtTokens
MaxExts == 2
\* number of StringToSpec calls in a run of SpecSeq
MaxCalls == 3

---------------------------------------------------------------------------
(* Constants of the program and of the utls library it configures.         *)

chrome == "chrome"
firefox == "firefox"
Nil == 0
GREASE_PLACEHOLDER == 2570
CurveP256 == 23
X25519 == 29
VersionTLS13 == 772
VersionTLS12 == 771

---------------------------------------------------------------------------
(* strings and strconv                                                      *)

Digits == <<"0", "1", "2", "3", "4", "5", "6", "7", "8", "9">>
UpperLetters == <<"A", "B", "C", "D", "E", "F", "G", "H", "I", "J", "K", "L", "M", "N", "O", "P", "Q", "R", "S", "T", "U", "V", "W", "X", "Y", "Z">>
LowerLetters == <<"a", "b", "c", "d", "e", "f", "g", "h", "i", "j", "k", "l", "m", "n", "o", "p", "q", "r", "s", "t", "u", "v", "w", "x", "y", "z">>

\* unicode.ToLower on one character
LowerChar(c) ==
    IF \E i \in 1..Len(UpperLetters) : UpperLetters[i] = c
    THEN LowerLetters[CHOOSE i \in 1..Len(UpperLetters) : UpperLetters[i] = c]
    ELSE c

\* strings.ToLower
ToLower(s) == [i \in 1..Len(s) |-> LowerChar(s[i])]

\* strings.Contains
Contains(s, substr) ==
    \E i \in 0..(Len(s) - Len(substr)) : SubSeq(s, i + 1, i + Len(substr)) = substr

RECURSIVE SplitFrom(_, _, _, _, _)
SplitFrom(s, sep, i, cur, acc) ==
    IF i > Len(s) THEN Append(acc, cur)
    ELSE IF s[i] = sep THEN SplitFrom(s, sep, i + 1, <<>>, Append(acc, cur))
    ELSE SplitFrom(s, sep, i + 1, Append(cur, s[i]), acc)

\* strings.Split(s, sep) for a one-character separator: always at least one
\* piece, Split("", sep) = [""]
Split(s, sep) == SplitFrom(s, sep, 1, <<>>, <<>>)

IsDigit(c) == \E i \in 1..Len(Digits) : Digits[i] = c
DigitVal(c) == (CHOOSE i \in 1..Len(Digits) : Digits[i] = c) - 1

NumError(num, cause) == [type |-> "NumError", ctx |-> num, cause |-> cause]

RECURSIVE ParseUintFrom(_, _, _, _)
ParseUintFrom(s, i, n, maxVal) ==
    IF i > Len(s) THEN [err |-> <<>>, val |-> n]
    ELSE IF ~IsDigit(s[i]) THEN [err |-> <<NumError(s, "ErrSyntax")>>, val |-> 0]
    ELSE LET n1 == n * 10 + DigitVal(s[i])
         IN IF n1 > maxVal THEN [err |-> <<NumError(s, "ErrRange")>>, val |-> maxVal]
            ELSE ParseUintFrom(s, i + 1, n1, maxVal)

\* strconv.ParseUint(s, 10, bitSize): the characters are read left to right
\* and the first bad digit or the first overflow of bitSize bits ends the
\* parse (with bitSize <= 16 the 64-bit cutoff is never the first to fail)
ParseUint_anyWidth(s, bitSize) ==
    IF Len(s) = 0 THEN [err |-> <<NumError(s, "ErrSyntax")>>, val |-> 0]
    ELSE ParseUintFrom(s, 1, 0, 2^16 - 1)

ParseUint(s, bitSize) ==
    IF Len(s) = 0 THEN [err |-> <<NumError(s, "ErrSyntax")>>, val |-> 0]
    ELSE ParseUintFrom(s, 1, 0, 2^bitSize - 1)

---------------------------------------------------------------------------
(* Extension objects and the heap                                           *)

\* one utls.TLSExtension value: its Go type and its payload fields
Ext(kind, list, shares, names, scalar) ==
    [kind |-> kind, list |-> list, shares |-> shares, names |-> names, scalar |-> scalar]

Plain(kind) == Ext(kind, <<>>, <<>>, <<>>, 0)
Free == Plain("")
KeyShare(group, data) == [Group |-> group, Data |-> data]

\* []utls.SignatureScheme of "13" and "50": ECDSAWithP256AndSHA256, ...,
\* PKCS1WithSHA1
DefaultSignatureSchemes ==
    <<1027, 1283, 1539, 2052, 2053, 2054, 1025, 1281, 1537, 515, 513>>

\* the map literal of genMap, in source order
Catalog == <<
    << <<"0">>, Plain("SNIExtension") >>,
    << <<"5">>, Plain("StatusRequestExtension") >>,
    << <<"1", "3">>, Ext("SignatureAlgorithmsExtension", DefaultSignatureSchemes, <<>>, <<>>, 0) >>,
    << <<"1", "6">>, Ext("ALPNExtension", <<>>, <<>>, <<"h2", "http/1.1">>, 0) >>,
    << <<"1", "7">>, Ext("GenericExtension", <<>>, <<>>, <<>>, 17) >>,
    << <<"1", "8">>, Plain("SCTExtension") >>,
    << <<"2", "1">>, Ext("UtlsPaddingExtension", <<>>, <<>>, <<"BoringPaddingStyle">>, 0) >>,
    << <<"2", "2">>, Ext("GenericExtension", <<>>, <<>>, <<>>, 22) >>,
    << <<"2", "3">>, Plain("ExtendedMasterSecretExtension") >>,
    << <<"2", "4">>, Plain("FakeTokenBindingExtension") >>,
    << <<"2", "7">>, Ext("UtlsCompressCertExtension", <<2>>, <<>>, <<>>, 0) >>,
    << <<"2", "8">>, Ext("FakeRecordSizeLimitExtension", <<>>, <<>>, <<>>, 16385) >>,
    << <<"3", "4">>, Ext("DelegatedCredentialsExtension", <<1027, 1283, 1539, 515>>, <<>>, <<>>, 0) >>,
    << <<"3", "5">>, Plain("SessionTicketExtension") >>,
    << <<"4", "1">>, Plain("UtlsPreSharedKeyExtension") >>,
    << <<"4", "3">>, Ext("SupportedVersionsExtension", <<VersionTLS13, VersionTLS12>>, <<>>, <<>>, 0) >>,
    << <<"4", "4">>, Plain("CookieExtension") >>,
    << <<"4", "5">>, Ext("PSKKeyExchangeModesExtension", <<1>>, <<>>, <<>>, 0) >>,
    << <<"4", "9">>, Ext("GenericExtension", <<>>, <<>>, <<>>, 49) >>,
    << <<"5", "0">>, Ext("SignatureAlgorithmsCertExtension", DefaultSignatureSchemes, <<>>, <<>>, 0) >>,
    << <<"5", "1">>, Ext("KeyShareExtension", <<>>, <<KeyShare(X25519, <<>>)>>, <<>>, 0) >>,
    << <<"5", "7">>, Plain("QUICTransportParametersExtension") >>,
    << <<"1", "3", "1", "7", "2">>, Plain("NPNExtension") >>,
    << <<"1", "7", "5", "1", "3">>, Ext("ApplicationSettingsExtension", <<>>, <<>>, <<"h2">>, 0) >>,
    << <<"1", "7", "6", "1", "3">>, Ext("ApplicationSettingsExtension", <<>>, <<>>, <<"h2">>, 0) >>,
    << <<"3", "0", "0", "3", "2">>, Ext("GenericExtension", <<0>>, <<>>, <<>>, 30032) >>,
    << <<"6", "5", "2", "8", "1">>, Ext("RenegotiationInfoExtension", <<>>, <<>>, <<>>, 1) >>,
    << <<"6", "5", "0", "3", "7">>, Plain("GREASEEncryptedClientHelloExtension") >>
>>

\* the eight pointer fields of TLSExtensions, the extension ID each one
\* overrides, and the object the caller of this model points each one at
OverrideFields == <<
    [field |-> "SupportedSignatureAlgorithms", id |-> <<"1", "3">>,
     obj |-> Ext("SignatureAlgorithmsExtension", <<2052>>, <<>>, <<>>, 0)],
    [field |-> "CertCompressionAlgo", id |-> <<"2", "7">>,
     obj |-> Ext("UtlsCompressCertExtension", <<1>>, <<>>, <<>>, 0)],
    [field |-> "RecordSizeLimit", id |-> <<"2", "8">>,
     obj |-> Ext("FakeRecordSizeLimitExtension", <<>>, <<>>, <<>>, 4096)],
    [field |-> "DelegatedCredentials", id |-> <<"3", "4">>,
     obj |-> Ext("DelegatedCredentialsExtension", <<1027>>, <<>>, <<>>, 0)],
    [field |-> "SupportedVersions", id |-> <<"4", "3">>,
     obj |-> Ext("SupportedVersionsExtension", <<VersionTLS12>>, <<>>, <<>>, 0)],
    [field |-> "PSKKeyExchangeModes", id |-> <<"4", "5">>,
     obj |-> Ext("PSKKeyExchangeModesExtension", <<0>>, <<>>, <<>>, 0)],
    [field |-> "SignatureAlgorithmsCert", id |-> <<"5", "0">>,
     obj |-> Ext("SignatureAlgorithmsCertExtension", <<1025>>, <<>>, <<>>, 0)],
    [field |-> "KeyShareCurves", id |-> <<"5", "1">>,
     obj |-> Ext("KeyShareExtension", <<>>, <<KeyShare(24, <<>>)>>, <<>>, 0)]
>>

CallerAddrs == 1..Len(OverrideFields)
CatalogAddr(i) == Len(OverrideFields) + i
CatalogAddrs == {CatalogAddr(i) : i \in 1..Len(Catalog)}
CurvesAddr == CatalogAddr(Len(Catalog)) + 1
PointsAddr == CurvesAddr + 1
GreaseAddrs == <<PointsAddr + 1, PointsAddr + 2>>
Addrs == 1..GreaseAddrs[2]

id10 == <<"1", "0">>
id11 == <<"1", "1">>
id13 == <<"1", "3">>
id21 == <<"2", "1">>
id27 == <<"2", "7">>
id28 == <<"2", "8">>
id34 == <<"3", "4">>
id41 == <<"4", "1">>
id43 == <<"4", "3">>
id45 == <<"4", "5">>
id50 == <<"5", "0">>
id51 == <<"5", "1">>

\* the TLSExtensions struct; an extension pointer is Nil or a heap address
TLSExtensions(sa, cc, rsl, dc, sv, psk, sac, ks, noGrease, hex) ==
    [SupportedSignatureAlgorithms |-> sa, CertCompressionAlgo |-> cc,
     RecordSizeLimit |-> rsl, DelegatedCredentials |-> dc,
     SupportedVersions |-> sv, PSKKeyExchangeModes |-> psk,
     SignatureAlgorithmsCert |-> sac, KeyShareCurves |-> ks,
     NotUsedGREASE |-> noGrease, ClientHelloHexStream |-> hex]

\* &TLSExtensions{}
ZeroTLSExtensions == TLSExtensions(Nil, Nil, Nil, Nil, Nil, Nil, Nil, Nil, FALSE, "")

\* map assignment m[k] = v
MapPut(m, k, v) == [x \in (DOMAIN m) \cup {k} |-> IF x = k THEN v ELSE m[x]]

---------------------------------------------------------------------------
(* The program                                                              *)

\* raiseExtensionError: &errExtensionNotExist{Context: info}
raiseExtensionError(info) == [type |-> "errExtensionNotExist", ctx |-> info, cause |-> ""]

parseUserAgent(userAgent) ==
    IF Contains(ToLower(userAgent), <<"c", "h", "r", "o", "m", "e">>) THEN chrome
    ELSE IF Contains(ToLower(userAgent), <<"a", "p", "p", "l", "e", "w", "e", "b", "k", "i", "t">>) THEN chrome
    ELSE IF Contains(ToLower(userAgent), <<"f", "i", "r", "e", "f", "o", "x">>) THEN firefox
    ELSE chrome

\* the key set and the freshly allocated objects of genMap's map literal
CatalogMap == [id \in {Catalog[i][1] : i \in 1..Len(Catalog)} |->
                  CatalogAddr(CHOOSE i \in 1..Len(Catalog) : Catalog[i][1] = id)]

FreshCatalog(h) ==
    [a \in Addrs |-> IF a \in CallerAddrs THEN h[a]
                     ELSE IF a \in CatalogAddrs
                          THEN Catalog[a - Len(OverrideFields)][2]
                          ELSE Free]

\* a catalog kept in a package-level variable and handed out again
genMap_shared(h) ==
    [extMap |-> CatalogMap,
     heap |-> IF h[CatalogAddr(1)] = Free THEN FreshCatalog(h) ELSE h]

\* genMap: every call allocates new extension objects.  The objects of the
\* call before are garbage by then (result is overwritten in the same
\* step), so the new ones take their addresses.
genMap(h) == [extMap |-> CatalogMap, heap |-> FreshCatalog(h)]

UseGrease_ignoreFlag(parsedUserAgent, tlsExtensions) == parsedUserAgent = chrome

\* parsedUserAgent == chrome && !tlsExtensions.NotUsedGREASE
UseGrease(parsedUserAgent, tlsExtensions) ==
    parsedUserAgent = chrome /\ ~tlsExtensions.NotUsedGREASE

\* the block without its last assignment (the key-share override)
MergeOverrides_noKeyShare(extMap, ext) ==
    LET m1 == IF ext.SupportedSignatureAlgorithms # Nil
              THEN MapPut(extMap, id13, ext.SupportedSignatureAlgorithms) ELSE extMap
        m2 == IF ext.CertCompressionAlgo # Nil
              THEN MapPut(m1, id27, ext.CertCompressionAlgo) ELSE m1
        m3 == IF ext.RecordSizeLimit # Nil
              THEN MapPut(m2, id28, ext.RecordSizeLimit) ELSE m2
        m4 == IF ext.DelegatedCredentials # Nil
              THEN MapPut(m3, id34, ext.DelegatedCredentials) ELSE m3
        m5 == IF ext.SupportedVersions # Nil
              THEN MapPut(m4, id43, ext.SupportedVersions) ELSE m4
        m6 == IF ext.PSKKeyExchangeModes # Nil
              THEN MapPut(m5, id45, ext.PSKKeyExchangeModes) ELSE m5
        m7 == IF ext.SignatureAlgorithmsCert # Nil
              THEN MapPut(m6, id50, ext.SignatureAlgorithmsCert) ELSE m6
    IN m7

\* the "custom tls extensions" block: eight map assignments
MergeOverrides(extMap, ext) ==
    LET m1 == IF ext.SupportedSignatureAlgorithms # Nil
              THEN MapPut(extMap, id13, ext.SupportedSignatureAlgorithms) ELSE extMap
        m2 == IF ext.CertCompressionAlgo # Nil
              THEN MapPut(m1, id27, ext.CertCompressionAlgo) ELSE m1
        m3 == IF ext.RecordSizeLimit # Nil
              THEN MapPut(m2, id28, ext.RecordSizeLimit) ELSE m2
        m4 == IF ext.DelegatedCredentials # Nil
              THEN MapPut(m3, id34, ext.DelegatedCredentials) ELSE m3
        m5 == IF ext.SupportedVersions # Nil
              THEN MapPut(m4, id43, ext.SupportedVersions) ELSE m4
        m6 == IF ext.PSKKeyExchangeModes # Nil
              THEN MapPut(m5, id45, ext.PSKKeyExchangeModes) ELSE m5
        m7 == IF ext.SignatureAlgorithmsCert # Nil
              THEN MapPut(m6, id50, ext.SignatureAlgorithmsCert) ELSE m6
    IN IF ext.KeyShareCurves # Nil
       THEN MapPut(m7, id51, ext.KeyShareCurves) ELSE m7

\* the chrome branch: GREASE in front of the versions of extMap["43"] and a
\* GREASE key share in front of the key shares of extMap["51"]
PrependGrease(h, extMap) ==
    LET h1 == IF id43 \in DOMAIN extMap
                 /\ h[extMap[id43]].kind = "SupportedVersionsExtension"
              THEN [h EXCEPT ![extMap[id43]].list = <<GREASE_PLACEHOLDER>> \o @]
              ELSE h
    IN IF id51 \in DOMAIN extMap /\ h1[extMap[id51]].kind = "KeyShareExtension"
       THEN [h1 EXCEPT ![extMap[id51]].shares =
                           <<KeyShare(GREASE_PLACEHOLDER, <<0>>)>> \o @]
       ELSE h1

\* the else branch: a P-256 key share appended to extMap["51"]
AppendP256(h, extMap) ==
    IF id51 \in DOMAIN extMap /\ h[extMap[id51]].kind = "KeyShareExtension"
    THEN [h EXCEPT ![extMap[id51]].shares = Append(@, KeyShare(CurveP256, <<>>))]
    ELSE h

\* the same writes made after the override merge instead of before it
GreaseCatalog_afterMerge(h, extMap, parsedUserAgent, tlsExtensions) ==
    IF UseGrease(parsedUserAgent, tlsExtensions)
    THEN PrependGrease(h, MergeOverrides(extMap, tlsExtensions))
    ELSE AppendP256(h, MergeOverrides(extMap, tlsExtensions))

\* the writes of the "parse curves" block to the catalog's objects
GreaseCatalog(h, extMap, parsedUserAgent, tlsExtensions) ==
    IF UseGrease(parsedUserAgent, tlsExtensions)
    THEN PrependGrease(h, extMap)
    ELSE AppendP256(h, extMap)

\* a `for _, c := range tokens` loop around strconv.ParseUint(c, 10, bitSize):
\* the first token that fails ends the call with its error
RECURSIVE ParseLoop(_, _, _, _)
ParseLoop(tokens, bitSize, i, acc) ==
    IF i > Len(tokens) THEN [err |-> <<>>, vals |-> acc]
    ELSE LET p == ParseUint(tokens[i], bitSize)
         IN IF p.err # <<>> THEN [err |-> p.err, vals |-> acc]
            ELSE ParseLoop(tokens, bitSize, i + 1, Append(acc, p.val))

\* `if len(x) == 1 && x[0] == "" { x = []string{} }`
DropEmpty(list) == IF Len(list) = 1 /\ list[1] = <<>> THEN <<>> ELSE list

targetCurves_greaseLast(grease, curves) ==
    LET r == ParseLoop(curves, 16, 1, <<>>)
    IN [err |-> r.err,
        vals |-> IF grease THEN Append(r.vals, GREASE_PLACEHOLDER) ELSE r.vals]

\* targetCurves: GREASE first for chrome, then every curve of the fingerprint
targetCurves(grease, curves) ==
    ParseLoop(curves, 16, 1, IF grease THEN <<GREASE_PLACEHOLDER>> ELSE <<>>)

\* suites: GREASE first for chrome, then every cipher of the fingerprint
suites(grease, ciphers) ==
    ParseLoop(ciphers, 16, 1, IF grease THEN <<GREASE_PLACEHOLDER>> ELSE <<>>)

\* the loop's miss reported with a fixed context instead of the token
ExtensionMiss_noContext(e) == <<raiseExtensionError(<<>>)>>

\* `return nil, raiseExtensionError(e)`
ExtensionMiss(e) == <<raiseExtensionError(e)>>

\* `for i, e := range extensions`
RECURSIVE ExtLoop(_, _, _, _, _)
ExtLoop(extMap, extensions, grease, i, exts) ==
    IF i > Len(extensions) THEN [err |-> <<>>, exts |-> exts]
    ELSE LET e == extensions[i]
         IN IF e \notin DOMAIN extMap
            THEN [err |-> ExtensionMiss(e), exts |-> exts]
            ELSE LET marked ==
                         IF i = Len(extensions) /\ (e = id41 \/ e = id21) /\ grease
                         THEN Append(exts, GreaseAddrs[2])
                         ELSE exts
                 IN ExtLoop(extMap, extensions, grease, i + 1,
                            Append(marked, extMap[e]))

\* the trailing marker appended whatever the last extension is
BuildExtensions_alwaysTrailing(extMap, extensions, grease) ==
    LET loop == ExtLoop(extMap, extensions, grease, 1,
                        IF grease THEN <<GreaseAddrs[1]>> ELSE <<>>)
    IN IF loop.err # <<>> THEN loop
       ELSE [err |-> <<>>,
             exts |-> IF grease THEN Append(loop.exts, GreaseAddrs[2]) ELSE loop.exts]

\* "build extenions list": the leading marker, the loop, the trailing marker
BuildExtensions(extMap, extensions, grease) ==
    LET loop == ExtLoop(extMap, extensions, grease, 1,
                        IF grease THEN <<GreaseAddrs[1]>> ELSE <<>>)
        last == extensions[Len(extensions)]
    IN IF loop.err # <<>> THEN loop
       ELSE [err |-> <<>>,
             exts |-> IF grease /\ (last # id21 /\ last # id41)
                      THEN Append(loop.exts, GreaseAddrs[2])
                      ELSE loop.exts]

\* every &utls.UtlsGREASEExtension{} in exts is a newly allocated object
AllocMarkers(h, exts) ==
    [a \in Addrs |->
        IF \E i \in 1..Len(exts) : exts[i] = a /\ (a = GreaseAddrs[1] \/ a = GreaseAddrs[2])
        THEN Plain("UtlsGREASEExtension") ELSE h[a]]

\* &utls.ClientHelloSpec{...}
ClientHelloSpec(cipherSuites, exts) ==
    [CipherSuites |-> cipherSuites, CompressionMethods |-> <<0>>,
     Extensions |-> exts, GetSessionID |-> "sha256.Sum256"]

NoResult == [plan |-> <<>>, err |-> <<>>, panic |-> FALSE]
\* `return nil, err`
ReturnError(h, err) == [heap |-> h, result |-> [plan |-> <<>>, err |-> err, panic |-> FALSE]]
\* `return &utls.ClientHelloSpec{...}, nil`
ReturnPlan(h, plan) == [heap |-> h, result |-> [plan |-> <<plan>>, err |-> <<>>, panic |-> FALSE]]
\* tokens[k] with k >= len(tokens): a run-time panic, nothing is returned
IndexPanic(h) == [heap |-> h, result |-> [plan |-> <<>>, err |-> <<>>, panic |-> TRUE]]

\* the body of (*TLSExtensions).StringToSpec on heap h; receiverNil says
\* that the receiver pointer is nil, receiver is the struct it points to
\* otherwise
StringToSpecBody(h, receiver, receiverNil, ja3, userAgent) ==
    LET parsedUserAgent == parseUserAgent(userAgent)
        tlsExtensions == IF receiverNil THEN ZeroTLSExtensions ELSE receiver
        g == genMap(h)
        tokens == Split(ja3, ",")
    IN IF Len(tokens) < 5 THEN IndexPanic(g.heap)
       ELSE
       LET version == tokens[1]
           ciphers == Split(tokens[2], "-")
           extensions == Split(tokens[3], "-")
           curves == DropEmpty(Split(tokens[4], "-"))
           pointFormats == DropEmpty(Split(tokens[5], "-"))
           grease == UseGrease(parsedUserAgent, tlsExtensions)
           h1 == GreaseCatalog(g.heap, g.extMap, parsedUserAgent, tlsExtensions)
           tc == targetCurves(grease, curves)
       IN IF tc.err # <<>> THEN ReturnError(h1, tc.err)
          ELSE
          LET h2 == [h1 EXCEPT ![CurvesAddr] =
                        Ext("SupportedCurvesExtension", tc.vals, <<>>, <<>>, 0)]
              extMap1 == MapPut(g.extMap, id10, CurvesAddr)
              tp == ParseLoop(pointFormats, 8, 1, <<>>)
          IN IF tp.err # <<>> THEN ReturnError(h2, tp.err)
             ELSE
             LET h3 == [h2 EXCEPT ![PointsAddr] =
                           Ext("SupportedPointsExtension", tp.vals, <<>>, <<>>, 0)]
                 extMap2 == MapPut(extMap1, id11, PointsAddr)
                 extMap3 == MergeOverrides(extMap2, tlsExtensions)
                 vid == ParseUint(version, 16)
             IN IF vid.err # <<>> THEN ReturnError(h3, vid.err)
                ELSE
                LET b == BuildExtensions(extMap3, extensions, grease)
                    h4 == AllocMarkers(h3, b.exts)
                IN IF b.err # <<>> THEN ReturnError(h4, b.err)
                   ELSE
                   LET s == suites(grease, ciphers)
                   IN IF s.err # <<>> THEN ReturnError(h4, s.err)
                      ELSE ReturnPlan(h4, ClientHelloSpec(s.vals, b.exts))

---------------------------------------------------------------------------
(* The inputs the callers of the model use                                  *)

RECURSIVE Join(_, _)
\* strings.Join: the fingerprints are written the way a caller writes them
Join(list, sep) ==
    IF Len(list) = 0 THEN <<>>
    ELSE IF Len(list) = 1 THEN list[1]
    ELSE list[1] \o <<sep>> \o Join(Tail(list), sep)

JA3(version, ciphers, extensions, curves, pointFormats) ==
    Join(<<version, ciphers, extensions, curves, pointFormats>>, ",")

SeqsUpTo(S, n) == UNION {[1..k -> S] : k \in 0..n}

ExtTokens == { <<"0">>, <<"1", "0">>, <<"2", "1">>, <<"4", "1">>, <<"4", "3">>, <<"5", "1">>, <<"9", "9", "9", "9", "9">>, <<"a", "b", "c">> }

\* every extension field of up to MaxExts tokens, with good other fields
OrderPool ==
    {JA3(<<"7", "7", "1">>, <<"4", "8", "6", "5", "-", "4", "8", "6", "6">>, Join(l, "-"), <<"2", "9", "-", "2", "3", "-", "2", "4">>, <<"0">>) :
        l \in SeqsUpTo(ExtTokens, MaxExts)}

\* every catalog ID (and "10", "11") on its own
CatalogPool ==
    {JA3(<<"7", "7", "1">>, <<"4", "8", "6", "5">>, id, <<"2", "9">>, <<"0">>) : id \in (DOMAIN CatalogMap) \cup {id10, id11}}

\* good, empty and malformed values of every field, in every combination
FieldPool ==
    {JA3(v, c, e, cu, pf) :
        v \in { <<"7", "7", "1">>, <<"7", "7", "a">> },
        c \in { <<"4", "8", "6", "5", "-", "4", "8", "6", "6">>, <<>>, <<"7", "0", "0", "0", "0">>, <<"2", "5", "7", "0", "-", "4", "8", "6", "5">> },
        e \in { <<"0", "-", "1", "0", "-", "1", "1">>, <<"9", "9", "9", "9", "9">>, <<>> },
        cu \in { <<"2", "9", "-", "2", "3", "-", "2", "4">>, <<>>, <<"6", "5", "5", "3", "6">> },
        pf \in { <<"0">>, <<>>, <<"2", "5", "6">> }}

\* fingerprints that do not have five fields
ShapePool ==
    { <<>>, <<"7", "7", "1">>, <<"7", "7", "1", ",", "4", "8", "6", "5", ",", "0">>, <<"7", "7", "1", ",", "4", "8", "6", "5", ",", "9", "9", "9", "9", "9", ",", "2", "9">>,
      <<"7", "7", "1", ",", "4", "8", "6", "5", "-", "4", "8", "6", "6", ",", "0", "-", "1", "0", "-", "1", "1", ",", "2", "9", "-", "2", "3", "-", "2", "4", ",", "0", ",", "7">>, <<"7", "7", "a", ",", "7", "0", "0", "0", "0", ",", "a", "b", "c", ",", "2", "9", ",", "0", ",", "0", ",", "0">> }

JA3Pool == OrderPool \cup CatalogPool \cup FieldPool \cup ShapePool

UserAgents == { <<"C", "h", "r", "o", "m", "e">>, <<"F", "i", "r", "e", "f", "o", "x">>, <<"A", "p", "p", "l", "e", "W", "e", "b", "K", "i", "t">>, <<>> }

\* the struct with the fields of S pointing at the caller's objects
Overrides(S, noGrease) ==
    LET p(k) == IF k \in S THEN k ELSE Nil
    IN TLSExtensions(p(1), p(2), p(3), p(4), p(5), p(6), p(7), p(8), noGrease, "")

Configs ==
    {Overrides(S, g) : S \in {{}} \cup {{k} : k \in CallerAddrs} \cup {CallerAddrs},
                       g \in BOOLEAN}

SeqJA3Pool ==
    { <<"7", "7", "1", ",", "4", "8", "6", "5", ",", "4", "3", "-", "5", "1", ",", "2", "9", ",", "0">>, <<"7", "7", "1", ",", "4", "8", "6", "5", "-", "4", "8", "6", "6", ",", "0", "-", "1", "0", "-", "1", "1", ",", "2", "9", "-", "2", "3", "-", "2", "4", ",", "0">>,
      <<"7", "7", "1", ",", "4", "8", "6", "5", ",", "1", "3", "-", "9", "9", "9", "9", "9", ",", "2", "9", ",", "0">>, <<"7", "7", "1", ",", "4", "8", "6", "5", ",", "0">> }

SeqUserAgents == { <<"C", "h", "r", "o", "m", "e">>, <<"F", "i", "r", "e", "f", "o", "x">> }

SeqConfigs == {Overrides({}, FALSE), Overrides(CallerAddrs, FALSE), Overrides({5, 8}, TRUE)}

---------------------------------------------------------------------------
(* The state machine                                                        *)

NoArgs == [ja3 |-> <<>>, userAgent |-> <<>>, receiverNil |-> TRUE, receiver |-> ZeroTLSExtensions]

\* what a call is given: the strings, the struct and the objects it points to
InputView(a, h) ==
    [ja3 |-> a.ja3, userAgent |-> a.userAgent,
     tlsExtensions |-> IF a.receiverNil THEN ZeroTLSExtensions ELSE a.receiver,
     objects |-> [k \in CallerAddrs |-> h[k]]]

\* what a call hands back, pointers followed
OutcomeView(r, h) ==
    [panic |-> r.panic, err |-> r.err,
     plan |-> IF r.plan = <<>> THEN <<>>
              ELSE <<[CipherSuites |-> r.plan[1].CipherSuites,
                      CompressionMethods |-> r.plan[1].CompressionMethods,
                      Extensions |-> [i \in 1..Len(r.plan[1].Extensions) |->
                                         h[r.plan[1].Extensions[i]]],
                      GetSessionID |-> r.plan[1].GetSessionID]>>]

Init ==
    /\ te = ZeroTLSExtensions
    /\ heap = [a \in Addrs |-> IF a \in CallerAddrs THEN OverrideFields[a].obj ELSE Free]
    /\ pc = "idle"
    /\ args = NoArgs
    /\ result = NoResult
    /\ seen = {}
    /\ calls = 0

\* the caller fills in its TLSExtensions struct between calls
SetOverrides(cfg) ==
    /\ pc # "panicked"
    /\ cfg # te
    /\ te' = cfg
    /\ UNCHANGED <<heap, pc, args, result, seen, calls>>

\* one call tlsExtensions.StringToSpec(ja3, userAgent), from entry to return
StringToSpec(ja3, userAgent, receiverNil) ==
    /\ pc # "panicked"
    /\ \E r \in {StringToSpecBody(heap, te, receiverNil, ja3, userAgent)} :
       \E a \in {[ja3 |-> ja3, userAgent |-> userAgent, receiverNil |-> receiverNil,
                  receiver |-> te]} :
       \E o \in {OutcomeView(r.result, r.heap)} :
          /\ heap' = r.heap
          /\ result' = r.result
          /\ pc' = IF r.result.panic THEN "panicked" ELSE "returned"
          /\ args' = a
          /\ seen' = seen \cup {[in |-> InputView(a, heap), out |-> o]}
          /\ calls' = calls + 1
    /\ UNCHANGED te

\* a caller that has not filled in a struct may call on a nil receiver
ReceiverNil == IF te = ZeroTLSExtensions THEN BOOLEAN ELSE {FALSE}

Next ==
    \/ /\ calls = 0
       /\ \E cfg \in Configs : SetOverrides(cfg)
    \/ /\ calls = 0
       /\ \E ja3 \in JA3Pool, userAgent \in UserAgents, receiverNil \in ReceiverNil :
             StringToSpec(ja3, userAgent, receiverNil)

NextSeq ==
    \/ /\ calls < MaxCalls
       /\ \E cfg \in SeqConfigs : SetOverrides(cfg)
    \/ /\ calls < MaxCalls
       /\ \E ja3 \in SeqJA3Pool, userAgent \in SeqUserAgents, receiverNil \in ReceiverNil :
             StringToSpec(ja3, userAgent, receiverNil)

\* one call on any fingerprint of JA3Pool
Spec == Init /\ [][Next]_vars

\* up to MaxCalls calls in a row on the fingerprints of SeqJA3Pool
SpecSeq == Init /\ [][NextSeq]_vars

---------------------------------------------------------------------------
(* Vocabulary of the properties: the last call's arguments as the          *)
(* specification reads them                                                 *)

Called == pc = "returned" \/ pc = "panicked"
Succeeded == pc = "returned" /\ result.plan # <<>>
Plan == result.plan[1]

Fields == Split(args.ja3, ",")
FiveFields == Len(Fields) >= 5
Effective == IF args.receiverNil THEN ZeroTLSExtensions ELSE args.receiver
ChromeLike == parseUserAgent(args.userAgent) = chrome
Randomizing == ChromeLike /\ ~Effective.NotUsedGREASE
GreasePrefix == IF Randomizing THEN <<GREASE_PLACEHOLDER>> ELSE <<>>

\* the dash-separated tokens the code reads out of each field
CipherTokens == Split(Fields[2], "-")
ExtIDs == Split(Fields[3], "-")
CurveTokens == DropEmpty(Split(Fields[4], "-"))
PointTokens == DropEmpty(Split(Fields[5], "-"))
\* the tokens of a field when an empty field holds none
ListOf(field) == IF field = <<>> THEN <<>> ELSE Split(field, "-")

RECURSIVE Dec(_)
\* the number a string of decimal digits denotes
Dec(s) == IF Len(s) = 0 THEN 0
          ELSE Dec(SubSeq(s, 1, Len(s) - 1)) * 10 + DigitVal(s[Len(s)])
Values(tokens) == [i \in 1..Len(tokens) |-> Dec(tokens[i])]
\* an unsigned decimal integer of the given width
Valid(s, bits) ==
    /\ Len(s) > 0
    /\ \A i \in 1..Len(s) : IsDigit(s[i])
    /\ Dec(s) < 2^bits
AllValid(tokens, bits) == \A i \in 1..Len(tokens) : Valid(tokens[i], bits)
FirstBad(tokens, bits) ==
    tokens[CHOOSE i \in 1..Len(tokens) :
              /\ ~Valid(tokens[i], bits)
              /\ \A j \in 1..(i - 1) : Valid(tokens[j], bits)]

\* the IDs with an entry once "10" and "11" are installed and the overrides
\* merged (every overridable ID is a catalog ID already)
Known(id) == id \in (DOMAIN CatalogMap) \cup {id10, id11}
AllKnown(ids) == \A i \in 1..Len(ids) : Known(ids[i])
FirstUnknown(ids) ==
    ids[CHOOSE i \in 1..Len(ids) : ~Known(ids[i]) /\ \A j \in 1..(i - 1) : Known(ids[j])]

IsNumError(r) == r.plan = <<>> /\ r.err # <<>> /\ r.err[1].type = "NumError" /\ ~r.panic
IsExtError(r, id) ==
    /\ r.plan = <<>> /\ r.err # <<>> /\ ~r.panic
    /\ r.err[1].type = "errExtensionNotExist" /\ r.err[1].ctx = id

IsMarker(a) == heap[a].kind = "UtlsGREASEExtension"
\* the override field of an ID (Nil when the ID has none or it is not set)
OverrideOf(id) ==
    IF \E k \in CallerAddrs : OverrideFields[k].id = id
    THEN Effective[OverrideFields[CHOOSE k \in CallerAddrs : OverrideFields[k].id = id].field]
    ELSE Nil
\* the definition an ID resolves to: the caller's override, else the
\* extension computed from the fingerprint, else the catalog's
Def(id) ==
    IF OverrideOf(id) # Nil THEN OverrideOf(id)
    ELSE IF id = id10 THEN CurvesAddr
    ELSE IF id = id11 THEN PointsAddr
    ELSE CatalogMap[id]
\* where the i-th extension ID of the fingerprint sits in the plan
Pos(i) ==
    IF ~Randomizing THEN i
    ELSE IF i = Len(ExtIDs) /\ (ExtIDs[i] = id21 \/ ExtIDs[i] = id41) THEN i + 2
    ELSE i + 1

---------------------------------------------------------------------------
(* C1: in every plan the extension sequence is, for a chrome-like identity *)
(* with randomization on, a marker, def(e1)..def(e(n-1)), then marker and  *)
(* def(en) when en is "21" or "41" and def(en) and a marker otherwise      *)
(* (n+2 entries); for any other call it is def(e1)..def(en).               *)
C1_ExtensionSequence ==
    Succeeded =>
        LET n == Len(ExtIDs)
            X == Plan.Extensions
        IN IF Randomizing
           THEN /\ Len(X) = n + 2
                /\ IsMarker(X[1])
                /\ \A i \in 1..(n - 1) : X[i + 1] = Def(ExtIDs[i]) /\ ~IsMarker(X[i + 1])
                /\ IF ExtIDs[n] = id21 \/ ExtIDs[n] = id41
                   THEN IsMarker(X[n + 1]) /\ X[n + 2] = Def(ExtIDs[n])
                   ELSE X[n + 1] = Def(ExtIDs[n]) /\ IsMarker(X[n + 2])
           ELSE /\ Len(X) = n
                /\ \A i \in 1..n : X[i] = Def(ExtIDs[i]) /\ ~IsMarker(X[i])

\* a plan for "21-41": padding in a non-final position, pre-shared key last
C1_Witness == Succeeded /\ Randomizing /\ ExtIDs = <<id21, id41>>

(* C2: in every plan the cipher suites are the fingerprint's ciphers, and  *)
(* the curves of the extension at "10" the fingerprint's curves, in order, *)
(* behind one GREASE placeholder exactly when the identity is chrome-like  *)
(* and randomization is on; "10" and "11" resolve to the extensions        *)
(* computed from the fingerprint.                                          *)
C2_CiphersAndCurves ==
    Succeeded =>
        /\ Plan.CipherSuites = GreasePrefix \o Values(CipherTokens)
        /\ heap[CurvesAddr] =
              Ext("SupportedCurvesExtension", GreasePrefix \o Values(CurveTokens), <<>>, <<>>, 0)
        /\ heap[PointsAddr] =
              Ext("SupportedPointsExtension", Values(PointTokens), <<>>, <<>>, 0)
        /\ \A i \in 1..Len(ExtIDs) :
              /\ ExtIDs[i] = id10 => Plan.Extensions[Pos(i)] = CurvesAddr
              /\ ExtIDs[i] = id11 => Plan.Extensions[Pos(i)] = PointsAddr

\* a chrome-like plan with "10" in it for a fingerprint without curves
C2_Witness ==
    /\ Succeeded /\ Randomizing /\ Fields[4] = <<>>
    /\ \E i \in 1..Len(ExtIDs) : ExtIDs[i] = id10
    /\ heap[CurvesAddr].list = <<GREASE_PLACEHOLDER>>

(* C3: a call on a fingerprint that does not split into exactly five       *)
(* fields returns a FormatError and a nil plan, and does not panic.        *)
C3_FormatError ==
    (Called /\ Len(Fields) # 5) =>
        /\ ~result.panic
        /\ result.plan = <<>>
        /\ result.err # <<>>
        /\ result.err[1].type = "FormatError"

(* C4: a five-field fingerprint with an empty cipher, extension, curve or  *)
(* point-format field (and good tokens in the other fields) compiles, the  *)
(* list of the empty field being empty apart from the placeholders and     *)
(* markers of the identity.                                                 *)
C4_EmptyFields ==
    (/\ Called /\ Len(Fields) = 5
     /\ Valid(Fields[1], 16)
     /\ AllValid(ListOf(Fields[2]), 16)
     /\ AllKnown(ListOf(Fields[3]))
     /\ AllValid(ListOf(Fields[4]), 16)
     /\ AllValid(ListOf(Fields[5]), 8))
    => /\ Succeeded
       /\ Plan.CipherSuites = GreasePrefix \o Values(ListOf(Fields[2]))
       /\ Fields[3] = <<>> =>
             \A j \in 1..Len(Plan.Extensions) : IsMarker(Plan.Extensions[j])
       /\ heap[CurvesAddr].list = GreasePrefix \o Values(ListOf(Fields[4]))
       /\ heap[PointsAddr].list = Values(ListOf(Fields[5]))

(* C5 (as claimed): whenever a version, cipher, extension-ID, curve or     *)
(* point-format token of a five-field fingerprint is not an unsigned       *)
(* decimal integer of its width, the call returns a numeric-format error   *)
(* and a nil plan, whatever else the fingerprint contains.                 *)
C5_AnyBadTokenIsNumError ==
    (/\ Called /\ FiveFields
     /\ \/ ~Valid(Fields[1], 16)
        \/ ~AllValid(ListOf(Fields[2]), 16)
        \/ ~AllValid(ListOf(Fields[3]), 16)
        \/ ~AllValid(ListOf(Fields[4]), 16)
        \/ ~AllValid(ListOf(Fields[5]), 8))
    => IsNumError(result)

(* C5 (amended): on a fingerprint of at least five fields the curve        *)
(* tokens (16 bits), the point-format tokens (8 bits), the version (16     *)
(* bits) and the cipher tokens (16 bits) are validated in this order, and  *)
(* the first bad one is returned as a numeric-format error with a nil      *)
(* plan; the extension IDs are looked up between the version and the       *)
(* ciphers and are not parsed as numbers, so a bad cipher token behind an  *)
(* unknown extension ID, or a non-numeric extension ID, yields the         *)
(* extension error instead.                                                 *)
C5_NumericValidation ==
    (Called /\ FiveFields) =>
        LET badCurve == ~AllValid(CurveTokens, 16)
            badPoint == ~AllValid(PointTokens, 8)
            badVersion == ~Valid(Fields[1], 16)
            unknown == ~AllKnown(ExtIDs)
            badCipher == ~AllValid(CipherTokens, 16)
        IN /\ pc = "returned"
           /\ badCurve =>
                 IsNumError(result) /\ result.err[1].ctx = FirstBad(CurveTokens, 16)
           /\ (~badCurve /\ badPoint) =>
                 IsNumError(result) /\ result.err[1].ctx = FirstBad(PointTokens, 8)
           /\ (~badCurve /\ ~badPoint /\ badVersion) =>
                 IsNumError(result) /\ result.err[1].ctx = Fields[1]
           /\ (~badCurve /\ ~badPoint /\ ~badVersion /\ unknown) =>
                 ~IsNumError(result) /\ IsExtError(result, FirstUnknown(ExtIDs))
           /\ (~badCurve /\ ~badPoint /\ ~badVersion /\ ~unknown /\ badCipher) =>
                 IsNumError(result) /\ result.err[1].ctx = FirstBad(CipherTokens, 16)

\* point format "256" rejected although the fingerprint also holds cipher
\* "70000" and the unknown extension "99999"
C5_Witness ==
    /\ Called /\ FiveFields
    /\ CipherTokens = << <<"7", "0", "0", "0", "0">> >> /\ ExtIDs = << <<"9", "9", "9", "9", "9">> >>
    /\ AllValid(CurveTokens, 16) /\ PointTokens = << <<"2", "5", "6">> >>
    /\ IsNumError(result) /\ result.err[1].ctx = <<"2", "5", "6">>

(* C6 (as claimed): when the extension list of a five-field fingerprint    *)
(* holds an ID without a catalog entry, the call returns the extension     *)
(* error naming the first such ID and a nil plan; every outcome is a plan  *)
(* without an error or an error without a plan.                            *)
C6_UnknownAlwaysExtError ==
    (Called /\ FiveFields) =>
        /\ ~AllKnown(ListOf(Fields[3])) =>
              IsExtError(result, FirstUnknown(ListOf(Fields[3])))
        /\ ~result.panic
        /\ (result.plan = <<>>) # (result.err = <<>>)

(* C6 (amended): when the version, curve and point-format tokens of a      *)
(* fingerprint of at least five fields are valid and its extension list    *)
(* holds an ID without a catalog entry, the call returns the extension     *)
(* error naming the first such ID and a nil plan (whatever the cipher      *)
(* tokens are); every call on such a fingerprint returns, with a plan and  *)
(* no error or an error and no plan.                                       *)
C6_UnknownExtension ==
    (Called /\ FiveFields) =>
        /\ (/\ Valid(Fields[1], 16)
            /\ AllValid(CurveTokens, 16)
            /\ AllValid(PointTokens, 8)
            /\ ~AllKnown(ExtIDs))
           => IsExtError(result, FirstUnknown(ExtIDs))
        /\ pc = "returned"
        /\ ~result.panic
        /\ (result.plan = <<>>) # (result.err = <<>>)

\* "abc-99999": two unknown IDs, the first one is reported
C6_Witness ==
    /\ pc = "returned"
    /\ ExtIDs = << <<"a", "b", "c">>, <<"9", "9", "9", "9", "9">> >>
    /\ IsExtError(result, <<"a", "b", "c">>)

\* the catalog's object for an ID
Default(id) == Catalog[CHOOSE i \in 1..Len(Catalog) : Catalog[i][1] = id][2]
\* the catalog's object as the "parse curves" block leaves it
AdjustedDefault(id) ==
    IF id = id43 /\ Randomizing
    THEN [Default(id) EXCEPT !.list = <<GREASE_PLACEHOLDER>> \o @]
    ELSE IF id = id51 /\ Randomizing
    THEN [Default(id) EXCEPT !.shares = <<KeyShare(GREASE_PLACEHOLDER, <<0>>)>> \o @]
    ELSE IF id = id51
    THEN [Default(id) EXCEPT !.shares = Append(@, KeyShare(CurveP256, <<>>))]
    ELSE Default(id)

(* C7: in every plan, an overridable ID ("13", "27", "28", "34", "43",     *)
(* "45", "50", "51") of the fingerprint resolves to the caller's override  *)
(* object, with the payload the caller gave it, when the override is set,  *)
(* and to the catalog's object (with the GREASE entry or the P-256 key     *)
(* share added to "43" and "51") when it is not.                           *)
C7_OverridesReplace ==
    Succeeded =>
        \A i \in 1..Len(ExtIDs), k \in CallerAddrs :
            ExtIDs[i] = OverrideFields[k].id =>
                LET x == Plan.Extensions[Pos(i)]
                    override == Effective[OverrideFields[k].field]
                IN IF override # Nil
                   THEN x = override /\ heap[x] = OverrideFields[k].obj
                   ELSE x = CatalogMap[ExtIDs[i]] /\ heap[x] = AdjustedDefault(ExtIDs[i])

\* a chrome-like plan for "43-51" with both overridden
C7_Witness ==
    /\ Succeeded /\ Randomizing /\ ExtIDs = <<id43, id51>>
    /\ Effective.SupportedVersions # Nil /\ Effective.KeyShareCurves # Nil

\* the outcome of the same call made with identity userAgent and the
\* suppress flag set is the outcome of the last call
SameAsSuppressed(userAgent) ==
    \A r \in {StringToSpecBody(heap, [Effective EXCEPT !.NotUsedGREASE = TRUE], FALSE,
                               args.ja3, userAgent)} :
        OutcomeView(r.result, r.heap) = OutcomeView(result, heap)

HasGrease(object) ==
    \/ \E j \in 1..Len(object.list) : object.list[j] = GREASE_PLACEHOLDER
    \/ \E j \in 1..Len(object.shares) : object.shares[j].Group = GREASE_PLACEHOLDER

(* C8 (as claimed): a call with a firefox-like identity has the outcome of *)
(* the same call with a chrome-like identity and the suppress flag set,    *)
(* and its plan holds no marker extension and no GREASE placeholder        *)
(* anywhere.                                                                *)
C8_NoGreaseAnywhere ==
    (Called /\ ~ChromeLike) =>
        /\ \A userAgent \in UserAgents :
              parseUserAgent(userAgent) = chrome => SameAsSuppressed(userAgent)
        /\ Succeeded =>
              /\ \A j \in 1..Len(Plan.CipherSuites) :
                    Plan.CipherSuites[j] # GREASE_PLACEHOLDER
              /\ \A j \in 1..Len(Plan.Extensions) :
                    ~IsMarker(Plan.Extensions[j]) /\ ~HasGrease(heap[Plan.Extensions[j]])

(* C8 (amended): a call with a firefox-like identity has the outcome of    *)
(* the same call with a chrome-like identity and the suppress flag set,    *)
(* and the compiler adds no marker extension and no GREASE placeholder to  *)
(* its plan: a GREASE value in the cipher list or in the curves is one of  *)
(* the fingerprint's own tokens, and no other extension holds one.         *)
C8_NoRandomizationPaths ==
    (Called /\ ~ChromeLike) =>
        /\ \A userAgent \in UserAgents :
              parseUserAgent(userAgent) = chrome => SameAsSuppressed(userAgent)
        /\ Succeeded =>
              /\ Len(Plan.CipherSuites) = Len(CipherTokens)
              /\ \A j \in 1..Len(Plan.CipherSuites) :
                    Plan.CipherSuites[j] = GREASE_PLACEHOLDER =>
                        Dec(CipherTokens[j]) = GREASE_PLACEHOLDER
              /\ \A j \in 1..Len(Plan.Extensions) :
                    LET x == Plan.Extensions[j]
                    IN /\ ~IsMarker(x)
                       /\ IF x = CurvesAddr
                          THEN /\ Len(heap[x].list) = Len(CurveTokens)
                               /\ \A c \in 1..Len(CurveTokens) :
                                     heap[x].list[c] = GREASE_PLACEHOLDER =>
                                         Dec(CurveTokens[c]) = GREASE_PLACEHOLDER
                          ELSE ~HasGrease(heap[x])

\* a firefox-like plan, suppress flag not set, for a fingerprint whose
\* first cipher is the GREASE value 2570
C8_Witness ==
    /\ Succeeded /\ ~ChromeLike /\ ~Effective.NotUsedGREASE
    /\ CipherTokens[1] = <<"2", "5", "7", "0">>
    /\ Plan.CipherSuites[1] = GREASE_PLACEHOLDER

(* C9: calls with the same fingerprint, identity and overrides have the    *)
(* same outcome, whatever calls were made in between: the history holds no *)
(* two entries with one input and different outcomes.                      *)
C9_Deterministic ==
    \A p \in seen, q \in seen : p.in = q.in => p.out = q.out

\* a chrome-like call on "43-51" made again after it returned a plan whose
\* supported versions start with the GREASE placeholder
C9_Witness ==
    /\ calls >= 2 /\ Cardinality(seen) = 1
    /\ Succeeded /\ Randomizing /\ ExtIDs = <<id43, id51>>
    /\ Effective.SupportedVersions = Nil
    /\ heap[Plan.Extensions[2]].list = <<GREASE_PLACEHOLDER, VersionTLS13, VersionTLS12>>

(* C10: a call leaves the caller's TLSExtensions struct and the extension  *)
(* objects it points to as they were, whether it returns a plan, returns   *)
(* an error or panics.                                                      *)
C10_OverridesUntouched ==
    [][calls' # calls =>
          /\ te' = te
          /\ \A a \in CallerAddrs : heap'[a] = heap[a]]_vars

\* a chrome-like call with randomization on whose fingerprint lists the
\* overridden "43" and "51"
C10_Witness ==
    /\ Succeeded /\ Randomizing /\ ~args.receiverNil
    /\ \E i \in 1..Len(ExtIDs) : ExtIDs[i] = id43
    /\ \E i \in 1..Len(ExtIDs) : ExtIDs[i] = id51
    /\ args.receiver.SupportedVersions # Nil /\ args.receiver.KeyShareCurves # Nil
    /\ \A a \in CallerAddrs : heap[a] = OverrideFields[a].obj

===========================================================================
